---- MODULE Spec2Model ----
(***************************************************************************)
(* Model of src/src/bootupd.rs: the persisted-state engine of bootupd.     *)
(*                                                                         *)
(* The state directory boot/ holds two names, bootupd-state.json and       *)
(* bootupd-state.json.tmp, that point at files (inodes).  Processes run    *)
(* install, update and status against the same root; every file-system    *)
(* call of update_state is a step of its own, so that crashes, failures    *)
(* and other processes interleave between any two of them.                 *)
(*                                                                         *)
(* A ContentMetadata / InstalledContent is modelled by its version, a      *)
(* number 1..MaxVersion; 0 stands for "no entry" (a key absent from a map, *)
(* Option::None for a single metadata).  An Option<map> is a sequence of   *)
(* length 0 (None) or 1 (Some(map)).                                       *)
(***************************************************************************)
EXTENDS Integers, Sequences, FiniteSets, TLC

\* Highest version number of the model.
MaxVersion == 2

\* Names handled by component::new_from_name, and the registry of
\* get_components().  Two names, so that "another component" exists.
Components == {"EFI", "BIOS"}

\* A name no component has.
Names == Components \cup {"nosuch"}

\* Processes running operations against the root (daemon instances, CLI runs).
Procs == {1, 2}

\* Value of `lock` while nobody holds the flock.
NoProc == 0

STATEFILE_NAME == "bootupd-state.json"
TMP_NAME == "bootupd-state.json.tmp"
DirNames == {STATEFILE_NAME, TMP_NAME}

\* Inode numbers; 0 is "no such name" / "no open file".  Inode numbers are
\* not observable by the program, so every state is kept in one numbering:
\* 1 is the file the canonical name points at, 2 the file the temporary name
\* points at, 2 + p the unnamed file of process p.
Inodes == 1 .. (Cardinality(Procs) + 2)

Versions == 1 .. MaxVersion
OptVersion == 0 .. MaxVersion

None == << >>
Some(m) == << m >>
EmptyMap == [c \in Components |-> 0]

\* SavedState { installed, pending } with Default::default()
DefaultState == [installed |-> EmptyMap, pending |-> None]

\* Option<BTreeMap>::take().unwrap_or_default()
UnwrapOrDefault(opt) == IF opt = None THEN EmptyMap ELSE opt[1]

FreeInode == [data |-> DefaultState, written |-> "free", synced |-> FALSE]

\* a Status that never looks into pending
StatusOfNoPending(st) ==
  [c \in Components |-> [installed |-> st.installed[c], interrupted |-> 0]]

\* The components of the Status built from state st: per name the installed
\* version (0: no entry for the name) and interrupted (0: None).
StatusOf(st) ==
  [c \in Components |->
     [installed |-> st.installed[c],
      interrupted |-> IF st.installed[c] = 0 THEN 0
                      ELSE UnwrapOrDefault(st.pending)[c]]]

\* What an operation returned: Ok(..) or Err(..) by kind, with the fields
\* of ComponentUpdateResult::Updated and the components of a Status.
Result(kind, prev, intr, new, st) ==
  [kind |-> kind, previous |-> prev, interrupted |-> intr, new |-> new,
   components |-> StatusOf(st)]

\* A result without fields: Ok(()), Ok(AtLatestVersion), Err(..) by kind
Plain(kind) == Result(kind, 0, 0, 0, DefaultState)

\* The return of an operation: the process, the operation and its `name`
\* argument, the result, and what the operation had called by then: the
\* number of update_state calls and whether run_update.
Event(p, o, n, r, s, u) ==
  [proc |-> p, op |-> o, name |-> n, result |-> r, saves |-> s, ran |-> u]

NothingReturned == Event(0, "none", "none", Plain("none"), 0, FALSE)

VARIABLES
  subdir,             \* boot/: name -> inode (0: the name does not exist)
  files,              \* inode -> [data, written, synced]
  lock,               \* holder of the exclusive flock on run/bootupd-lock
  pc,                 \* per process: position in its operation
  op,                 \* per process: operation being run
  name,               \* per process: the `name` argument of update
  state,              \* per process: the in-memory SavedState (`state`)
  inst,               \* per process: `inst` (installed version as loaded)
  update,             \* per process: `update` (the candidate), 0 for None
  pending_container,  \* per process: the local `pending_container`
  interrupted,        \* per process: the local `interrupted`
  newinst,            \* per process: `newinst` returned by run_update
  f,                  \* per process: the unnamed file `f` of update_state
  returned,           \* the return the last step made (NothingReturned
                      \* when the last step was not the return of an operation)
  saves,              \* per process: update_state calls begun by the operation
  ran,                \* per process: the operation called run_update
  loaded,             \* per process: the SavedState as get_saved_state returned it
  failed              \* the failed run_update whose retry is awaited:
                      \* [name, update], forgotten when the retry succeeds
                      \* or is killed, and when an operation other than the
                      \* retry and status begins

\* The client of the daemon (client_run_update, client_run_validate)
VARIABLES
  cpc,                \* position of the client in its run
  cop,                \* the run: "update" or "validate"
  preview_env,        \* BOOTUPD_ACCEPT_PREVIEW is set in the client's environment
  status,             \* `status`: component -> its `updatable` ("absent": no entry)
  iter,               \* the names status.components.iter() has yet to yield
  updated,            \* `updated`
  caught_validation_error,   \* `caught_validation_error`
  sent,               \* the requests sent with c.send, in order
  replies,            \* component -> the reply to its request ("none": no reply)
  warnings,           \* components with a "warning: Expected update" on stderr
  exit                \* what the run returned ("none": still running)

cvars == << cpc, cop, preview_env, status, iter, updated,
            caught_validation_error, sent, replies, warnings, exit >>

dvars == << subdir, files, lock, pc, op, name, state, inst, update,
            pending_container, interrupted, newinst, f, returned, saves,
            ran, loaded, failed >>

vars == << dvars, cvars >>

\* the variables of a running operation that its steps mostly leave alone
locals == << op, name, state, inst, update, pending_container, interrupted,
             newinst, loaded, saves, ran >>

fsvars == << subdir, files, f >>

NoFailure == [name |-> "none", update |-> 0]

----------------------------------------------------------------------------
(* File system helpers *)

\* The number an inode is kept under (see Inodes).
Slot(i, sd, fds) ==
  IF sd[STATEFILE_NAME] = i THEN 1
  ELSE IF sd[TMP_NAME] = i THEN 2
  ELSE 2 + (CHOOSE p \in Procs : fds[p] = i)

Referenced(i, sd, fds) ==
  (\E n \in DirNames : sd[n] = i) \/ (\E p \in Procs : fds[p] = i)

\* The file system after a step that leaves inode contents fs, directory sd
\* and open descriptors fds: an inode that no name and no descriptor refers
\* to is released, the others keep their content.
SetFS(fs, sd, fds) ==
  /\ subdir' = [n \in DirNames |-> IF sd[n] = 0 THEN 0 ELSE Slot(sd[n], sd, fds)]
  /\ f' = [p \in Procs |-> IF fds[p] = 0 THEN 0 ELSE Slot(fds[p], sd, fds)]
  /\ files' = [j \in Inodes |->
       IF \E i \in Inodes : Referenced(i, sd, fds) /\ Slot(i, sd, fds) = j
       THEN fs[CHOOSE i \in Inodes : Referenced(i, sd, fds) /\ Slot(i, sd, fds) = j]
       ELSE FreeInode]

\* The inode of a file process p creates.
FreshInode(p) == 2 + p

\* What a reader gets from open_file_optional + serde_json::from_reader on
\* the canonical name: "absent", "malformed" or "ok" with the state.
ReadKind == IF subdir[STATEFILE_NAME] = 0 THEN "absent"
            ELSE IF files[subdir[STATEFILE_NAME]].written = "full" THEN "ok"
            ELSE "malformed"

ReadData == IF ReadKind = "ok" THEN files[subdir[STATEFILE_NAME]].data
            ELSE DefaultState

----------------------------------------------------------------------------
(* Collaborators outside bootupd.rs *)

\* ContentMetadata::can_upgrade_to: the candidate is strictly newer.
CanUpgradeTo(installed, candidate) == candidate > installed

\* Component::run_update on success: the content of the candidate payload.
RunUpdate(current, candidate) == candidate

\* component::new_from_name succeeds
KnownComponent(n) == n \in Components

----------------------------------------------------------------------------
\* The state file a run can find.  get_saved_state deserialises whatever
\* SavedState the file holds: installed as an install leaves it, and pending
\* absent or present (the format admits both, whatever wrote the file).
InitialFiles ==
  { [data |-> [installed |-> [c \in Components |-> 1], pending |-> pd],
     written |-> "full", synced |-> TRUE] :
      pd \in {None, Some([c \in Components |-> MaxVersion]),
              Some([c \in Components |-> IF c = "EFI" THEN MaxVersion ELSE 0])} }

Init ==
  /\ \/ /\ subdir = [n \in DirNames |-> 0]
        /\ files = [i \in Inodes |-> FreeInode]
     \/ \E file \in InitialFiles :
           /\ subdir = [n \in DirNames |-> IF n = STATEFILE_NAME THEN 1 ELSE 0]
           /\ files = [i \in Inodes |-> IF i = 1 THEN file ELSE FreeInode]
  /\ lock = NoProc
  /\ pc = [p \in Procs |-> "idle"]
  /\ op = [p \in Procs |-> "none"]
  /\ name = [p \in Procs |-> "none"]
  /\ state = [p \in Procs |-> DefaultState]
  /\ inst = [p \in Procs |-> 0]
  /\ update = [p \in Procs |-> 0]
  /\ pending_container = [p \in Procs |-> EmptyMap]
  /\ interrupted = [p \in Procs |-> 0]
  /\ newinst = [p \in Procs |-> 0]
  /\ f = [p \in Procs |-> 0]
  /\ returned = NothingReturned
  /\ saves = [p \in Procs |-> 0]
  /\ ran = [p \in Procs |-> FALSE]
  /\ loaded = [p \in Procs |-> DefaultState]
  /\ failed = NoFailure
  /\ cpc = "idle"
  /\ cop = "none"
  /\ preview_env = FALSE
  /\ status = [c \in Components |-> "absent"]
  /\ iter = << >>
  /\ updated = FALSE
  /\ caught_validation_error = FALSE
  /\ sent = << >>
  /\ replies = [c \in Components |-> "none"]
  /\ warnings = {}
  /\ exit = "none"

----------------------------------------------------------------------------
(* Leaving an operation *)

\* No operation is running in process p.
Idle(p) == pc[p] = "idle"

\* The step is not the return of an operation (and not one of the client).
Quiet == returned' = NothingReturned /\ UNCHANGED cvars

\* a lock that outlives the operation
KeptLocked(p) == lock

\* `_lock` goes out of scope: the File is closed, which drops the flock
Released(p) == IF lock = p THEN NoProc ELSE lock

\* The locals of the function go out of scope.
DropLocals(p) ==
  /\ op' = [op EXCEPT ![p] = "none"]
  /\ name' = [name EXCEPT ![p] = "none"]
  /\ state' = [state EXCEPT ![p] = DefaultState]
  /\ inst' = [inst EXCEPT ![p] = 0]
  /\ update' = [update EXCEPT ![p] = 0]
  /\ pending_container' = [pending_container EXCEPT ![p] = EmptyMap]
  /\ interrupted' = [interrupted EXCEPT ![p] = 0]
  /\ newinst' = [newinst EXCEPT ![p] = 0]
  /\ loaded' = [loaded EXCEPT ![p] = DefaultState]
  /\ saves' = [saves EXCEPT ![p] = 0]
  /\ ran' = [ran EXCEPT ![p] = FALSE]

\* Operation o of process p returns r, having made s update_state calls and
\* (u) a run_update call or none: `_lock` is dropped with the other locals.
ReturnFrom(p, o, r, s, u) ==
  /\ pc' = [pc EXCEPT ![p] = "idle"]
  /\ returned' = Event(p, o, name[p], r, s, u)
  /\ lock' = Released(p)
  /\ DropLocals(p)
  /\ UNCHANGED cvars

Return(p, r) == ReturnFrom(p, op[p], r, saves[p], ran[p])

\* `f` dropped
Closed(p) == [f EXCEPT ![p] = 0]

----------------------------------------------------------------------------
(* update_state: atomically replace the on-disk state (lines 160-183).     *)
(* The caller sets pc to "s_create" and counts the call in saves.          *)

SavePcs == {"s_create", "s_write", "s_exists", "s_remove", "s_link",
            "s_sync", "s_rename"}

\* subdir.new_unnamed_file(0o644): an empty file without a name
SaveCreate(p) ==
  /\ pc[p] = "s_create"
  /\ SetFS([files EXCEPT ![FreshInode(p)] =
              [data |-> state[p], written |-> "empty", synced |-> FALSE]],
           subdir, [f EXCEPT ![p] = FreshInode(p)])
  /\ pc' = [pc EXCEPT ![p] = "s_write"]
  /\ Quiet
  /\ UNCHANGED << lock, locals, failed >>

\* update_state going on to link and rename after the first write only
SaveWriteNoFlush(p) ==
  /\ pc[p] = "s_write"
  /\ files' = [files EXCEPT ![f[p]].written = "partial"]
  /\ pc' = [pc EXCEPT ![p] = "s_exists"]
  /\ Quiet
  /\ UNCHANGED << subdir, f, lock, locals, failed >>

\* serde_json::to_writer through the BufWriter, then flush: the content
\* reaches the unnamed file in more than one write
SaveWrite(p) ==
  /\ pc[p] = "s_write"
  /\ IF files[f[p]].written = "empty"
     THEN /\ files' = [files EXCEPT ![f[p]].written = "partial"]
          /\ pc' = pc
     ELSE /\ files' = [files EXCEPT ![f[p]].written = "full"]
          /\ pc' = [pc EXCEPT ![p] = "s_exists"]
  /\ Quiet
  /\ UNCHANGED << subdir, f, lock, locals, failed >>

\* update_state linking its file without a look at the temporary name
SaveExistsNoRemove(p) ==
  /\ pc[p] = "s_exists"
  /\ pc' = [pc EXCEPT ![p] = "s_link"]
  /\ Quiet
  /\ UNCHANGED << fsvars, lock, locals, failed >>

\* if subdir.exists(dest_tmp_name)?
SaveExists(p) ==
  /\ pc[p] = "s_exists"
  /\ pc' = [pc EXCEPT ![p] = IF subdir[TMP_NAME] # 0 THEN "s_remove" ELSE "s_link"]
  /\ Quiet
  /\ UNCHANGED << fsvars, lock, locals, failed >>

\* subdir.remove_file(dest_tmp_name)?  (ENOENT when the name is gone)
SaveRemove(p) ==
  /\ pc[p] = "s_remove"
  /\ IF subdir[TMP_NAME] = 0
     THEN /\ Return(p, Plain("ErrIO"))
          /\ SetFS(files, subdir, Closed(p))
     ELSE /\ SetFS(files, [subdir EXCEPT ![TMP_NAME] = 0], f)
          /\ pc' = [pc EXCEPT ![p] = "s_link"]
          /\ Quiet
          /\ UNCHANGED << lock, locals >>
  /\ UNCHANGED failed

\* subdir.link_file_at(&f, dest_tmp_name)?  (EEXIST when the name exists)
SaveLink(p) ==
  /\ pc[p] = "s_link"
  /\ IF subdir[TMP_NAME] # 0
     THEN /\ Return(p, Plain("ErrIO"))
          /\ SetFS(files, subdir, Closed(p))
     ELSE /\ SetFS(files, [subdir EXCEPT ![TMP_NAME] = f[p]], f)
          /\ pc' = [pc EXCEPT ![p] = "s_sync"]
          /\ Quiet
          /\ UNCHANGED << lock, locals >>
  /\ UNCHANGED failed

\* f.sync_all()?
SaveSync(p) ==
  /\ pc[p] = "s_sync"
  /\ files' = [files EXCEPT ![f[p]].synced = TRUE]
  /\ pc' = [pc EXCEPT ![p] = "s_rename"]
  /\ Quiet
  /\ UNCHANGED << subdir, f, lock, locals, failed >>

\* The directory after rename(2) of the temporary name over the canonical one
Renamed(sd) == [sd EXCEPT ![STATEFILE_NAME] = sd[TMP_NAME], ![TMP_NAME] = 0]

\* Ok(ComponentUpdateResult::Updated { previous: inst.meta, interrupted,
\* new: update.clone() })
Updated(p) ==
  Result("Updated", inst[p], interrupted[p], update[p], DefaultState)

\* subdir.local_rename(dest_tmp_name, STATEFILE_NAME)?; Ok(())
\* and the caller's continuation: update goes on to run_update after its
\* first save and returns Updated after its second; install returns Ok.
SaveRename(p) ==
  /\ pc[p] = "s_rename"
  /\ IF subdir[TMP_NAME] = 0
     THEN /\ Return(p, Plain("ErrIO"))
          /\ SetFS(files, subdir, Closed(p))
          /\ failed' = failed
     ELSE /\ SetFS(files, Renamed(subdir), Closed(p))
          /\ IF op[p] = "update" /\ saves[p] = 1
             THEN /\ pc' = [pc EXCEPT ![p] = "u_run"]
                  /\ Quiet
                  /\ UNCHANGED << lock, locals, failed >>
             ELSE IF op[p] = "update"
             THEN /\ Return(p, Updated(p))
                  /\ failed' = IF failed.name = name[p] THEN NoFailure ELSE failed
             ELSE /\ Return(p, Plain("Ok"))
                  /\ failed' = failed

\* Any call of update_state returns an I/O error, propagated by `?`
SaveFail(p) ==
  /\ pc[p] \in SavePcs
  /\ Return(p, Plain("ErrIO"))
  /\ SetFS(files, subdir, Closed(p))
  /\ UNCHANGED failed

----------------------------------------------------------------------------
(* update: daemon implementation of component update (lines 110-143) *)

\* the daemon receives ClientRequest::Update { component: n }
StartUpdate(p, n) ==
  /\ Idle(p)
  /\ pc' = [pc EXCEPT ![p] = "u_lock"]
  /\ op' = [op EXCEPT ![p] = "update"]
  /\ name' = [name EXCEPT ![p] = n]
  /\ failed' = IF failed.name = n THEN failed ELSE NoFailure
  /\ Quiet
  /\ UNCHANGED << fsvars, lock, state, inst, update, pending_container,
                  interrupted, newinst, loaded, saves, ran >>

\* a lock that any number of processes hold at once (lock_shared)
LockShared == TRUE

\* lockf.lock_exclusive() returns once no other holder is left
LockAvailable == lock = NoProc

\* let _lock = acquire_write_lock("/")?
AcquireWriteLock(p) ==
  /\ pc[p] = "u_lock"
  /\ LockAvailable
  /\ lock' = p
  /\ pc' = [pc EXCEPT ![p] = "u_load"]
  /\ Quiet
  /\ UNCHANGED << fsvars, locals, failed >>

\* a lookup that takes every name for an installed one
IsInstalledAlways(st, n) == TRUE

\* if let Some(inst) = state.installed.get(name)
IsInstalled(st, n) == st.installed[n] # 0

\* get_saved_state("/")?.unwrap_or_else(default); new_from_name(name)?;
\* state.installed.get(name) or bail
UpdateLoad(p) ==
  /\ pc[p] = "u_load"
  /\ IF ReadKind = "malformed"
     THEN Return(p, Plain("ErrParse"))
     ELSE IF ~ KnownComponent(name[p])
     THEN Return(p, Plain("ErrNoComponent"))
     ELSE IF ~ IsInstalled(ReadData, name[p])
     THEN Return(p, Plain("ErrNotInstalled"))
     ELSE /\ state' = [state EXCEPT ![p] = ReadData]
          /\ loaded' = [loaded EXCEPT ![p] = ReadData]
          /\ inst' = [inst EXCEPT ![p] = ReadData.installed[name[p]]]
          /\ pc' = [pc EXCEPT ![p] = "u_query"]
          /\ Quiet
          /\ UNCHANGED << lock, op, name, update, pending_container,
                          interrupted, newinst, saves, ran >>
  /\ UNCHANGED << fsvars, failed >>

\* the match without its guard: any Some(p)
IsCandidate(installed, u) == u # 0

\* the match with a guard that lets an equal version through
IsNotOlder(installed, u) == u # 0 /\ u >= installed

\* Some(p) if inst.meta.can_upgrade_to(&p)
IsUpgrade(installed, u) == u # 0 /\ CanUpgradeTo(installed, u)

\* component.query_update()? returns u (0: None); match update.as_ref():
\* anything but an upgrade returns AtLatestVersion
UpdateQuery(p, u) ==
  /\ pc[p] = "u_query"
  /\ IF IsUpgrade(inst[p], u)
     THEN /\ update' = [update EXCEPT ![p] = u]
          /\ pc' = [pc EXCEPT ![p] = "u_pending"]
          /\ Quiet
          /\ UNCHANGED << lock, op, name, state, inst, pending_container,
                          interrupted, newinst, loaded, saves, ran >>
     ELSE Return(p, Plain("AtLatestVersion"))
  /\ UNCHANGED << fsvars, failed >>

\* state.pending.take(): the Option is moved out and None is left in `state`
TakePending(st) == [st EXCEPT !.pending = None]

\* pending_container.get(component.name()).cloned()
GetInterrupted(container, n) == container[n]

\* let mut pending_container = state.pending.take().unwrap_or_default();
\* let interrupted = ...; pending_container.insert(name, update.clone());
\* then update_state(&sysroot, &state) is entered
UpdatePending(p) ==
  /\ pc[p] = "u_pending"
  /\ state' = [state EXCEPT ![p] = TakePending(state[p])]
  /\ interrupted' = [interrupted EXCEPT ![p] =
                       GetInterrupted(UnwrapOrDefault(state[p].pending), name[p])]
  /\ pending_container' = [pending_container EXCEPT ![p] =
                       [UnwrapOrDefault(state[p].pending) EXCEPT ![name[p]] = update[p]]]
  /\ saves' = [saves EXCEPT ![p] = 1]
  /\ pc' = [pc EXCEPT ![p] = "s_create"]
  /\ Quiet
  /\ UNCHANGED << fsvars, lock, op, name, inst, update, newinst, ran,
                  loaded, failed >>

\* component.run_update(&inst) returns Ok(newinst)
RunUpdateOk(p) ==
  /\ pc[p] = "u_run"
  /\ newinst' = [newinst EXCEPT ![p] = RunUpdate(inst[p], update[p])]
  /\ ran' = [ran EXCEPT ![p] = TRUE]
  /\ pc' = [pc EXCEPT ![p] = "u_commit"]
  /\ Quiet
  /\ UNCHANGED << fsvars, lock, op, name, state, inst, update,
                  pending_container, interrupted, saves, loaded, failed >>

\* component.run_update(&inst) returns Err:
\* .with_context(|| format!("Failed to update {}", component.name()))?
RunUpdateFail(p) ==
  /\ pc[p] = "u_run"
  /\ ReturnFrom(p, op[p], Plain("ErrRunUpdate"), saves[p], TRUE)
  /\ failed' = [name |-> name[p], update |-> update[p]]
  /\ UNCHANGED fsvars

\* update leaving the map of installed components as loaded
InsertNothing(st, n, v) == st

\* state.installed.insert(name, newinst)
InsertInstalled(st, n, v) == [st EXCEPT !.installed[n] = v]

\* state.installed.insert(..); pending_container.remove(..); then
\* update_state(&sysroot, &state) is entered
UpdateCommit(p) ==
  /\ pc[p] = "u_commit"
  /\ state' = [state EXCEPT ![p] = InsertInstalled(state[p], name[p], newinst[p])]
  /\ pending_container' = [pending_container EXCEPT ![p][name[p]] = 0]
  /\ saves' = [saves EXCEPT ![p] = 2]
  /\ pc' = [pc EXCEPT ![p] = "s_create"]
  /\ Quiet
  /\ UNCHANGED << fsvars, lock, op, name, inst, update, interrupted,
                  newinst, ran, loaded, failed >>

----------------------------------------------------------------------------
(* install (lines 30-56) *)

\* get_components()
GetComponents == Components

\* What get_components() returns in a build: the registry above, or nothing
\* on an architecture for which no component is compiled in
Registries == {GetComponents, {}}

\* an existence check that never finds the file
StateFileNeverExists == FALSE

\* statepath.exists()
StateFileExists == subdir[STATEFILE_NAME] # 0

\* if statepath.exists() { bail!(..) }; let components = get_components();
\* if components.is_empty() { ..; return Ok(()) }
InstallCheck(p, components) ==
  /\ Idle(p)
  /\ IF StateFileExists
     THEN ReturnFrom(p, "install", Plain("ErrExists"), 0, FALSE)
     ELSE IF components = {}
     THEN ReturnFrom(p, "install", Plain("Ok"), 0, FALSE)
     ELSE /\ pc' = [pc EXCEPT ![p] = "i_install"]
          /\ op' = [op EXCEPT ![p] = "install"]
          /\ Quiet
          /\ UNCHANGED << lock, name, state, inst, update, pending_container,
                          interrupted, newinst, loaded, saves, ran >>
  /\ failed' = NoFailure
  /\ UNCHANGED fsvars

\* a loop that installs the first component of the registry only
FreshStateOfFirst(v) ==
  [installed |-> [c \in Components |-> IF c = "EFI" THEN v ELSE 0],
   pending |-> None]

\* SavedState { installed: Default::default(), pending: Default::default() }
\* after state.installed.insert(component.name().into(), meta) for every
\* component of the registry
FreshState(v) ==
  [installed |-> [c \in Components |-> IF c \in GetComponents THEN v ELSE 0],
   pending |-> None]

\* the loop over the components, each component.install(..)? returning the
\* metadata v of the payload in source_root; then update_state is entered
InstallComponents(p, v) ==
  /\ pc[p] = "i_install"
  /\ state' = [state EXCEPT ![p] = FreshState(v)]
  /\ saves' = [saves EXCEPT ![p] = 1]
  /\ pc' = [pc EXCEPT ![p] = "s_create"]
  /\ Quiet
  /\ UNCHANGED << fsvars, lock, op, name, inst, update, pending_container,
                  interrupted, newinst, ran, loaded, failed >>

\* a component.install(..)? returns Err
InstallFail(p) ==
  /\ pc[p] = "i_install"
  /\ Return(p, Plain("ErrInstall"))
  /\ UNCHANGED << fsvars, failed >>

----------------------------------------------------------------------------
(* status (lines 201-229) and validate (lines 146-157) *)

\* get_saved_state("/")?; without a state file Ok(ret) with the default,
\* empty Status; otherwise the loop building `ret` from that one load, in
\* which a component.query_update()? can fail.  The fields `update` and
\* `updatable` of a ComponentStatus, which come from query_update alone,
\* are left out of the result.
StatusLoad(p, queries_ok) ==
  /\ Idle(p)
  /\ IF ReadKind = "malformed"
     THEN ReturnFrom(p, "status", Plain("ErrParse"), 0, FALSE)
     ELSE IF ReadKind = "ok" /\ ~ queries_ok
     THEN ReturnFrom(p, "status", Plain("ErrQuery"), 0, FALSE)
     ELSE ReturnFrom(p, "status", Result("Status", 0, 0, 0, ReadData), 0, FALSE)
  /\ UNCHANGED << fsvars, failed >>

\* What component.validate(&inst) returns: Ok(Valid), Ok(Errors(..)), Err
ValidationResults == {"Valid", "Errors", "ErrValidate"}

\* get_saved_state("/")?.unwrap_or_else(default); new_from_name(name)?;
\* state.installed.get(name) or bail; component.validate(&inst) returns r
Validate(p, n, r) ==
  /\ Idle(p)
  /\ pc' = pc
  /\ returned' =
       Event(p, "validate", n,
             IF ReadKind = "malformed" THEN Plain("ErrParse")
             ELSE IF ~ KnownComponent(n) THEN Plain("ErrNoComponent")
             ELSE IF ~ IsInstalled(ReadData, n) THEN Plain("ErrNotInstalled")
             ELSE Plain(r),
             0, FALSE)
  /\ UNCHANGED << cvars, name, fsvars, lock, op, state, inst, update, pending_container,
                  interrupted, newinst, loaded, saves, ran, failed >>

----------------------------------------------------------------------------
(* Process death *)

\* The process is killed (or the machine stops) in the middle of an
\* operation: its descriptors are closed, which drops the flock and the
\* unnamed file; the names in boot/ stay as they are.  The next invocation
\* starts from nothing.
Crash(p) ==
  /\ ~ Idle(p)
  /\ pc' = [pc EXCEPT ![p] = "idle"]
  /\ lock' = IF lock = p THEN NoProc ELSE lock
  /\ SetFS(files, subdir, Closed(p))
  /\ DropLocals(p)
  /\ Quiet
  /\ failed' = IF op[p] = "update" /\ failed.name = name[p] THEN NoFailure
               ELSE failed

----------------------------------------------------------------------------
Next ==
  \E p \in Procs :
    \/ \E n \in Names : StartUpdate(p, n)
    \/ AcquireWriteLock(p)
    \/ UpdateLoad(p)
    \/ \E u \in OptVersion : UpdateQuery(p, u)
    \/ UpdatePending(p)
    \/ RunUpdateOk(p)
    \/ RunUpdateFail(p)
    \/ UpdateCommit(p)
    \/ \E components \in Registries : InstallCheck(p, components)
    \/ \E v \in Versions : InstallComponents(p, v)
    \/ InstallFail(p)
    \/ \E queries_ok \in BOOLEAN : StatusLoad(p, queries_ok)
    \/ SaveCreate(p)
    \/ SaveWrite(p)
    \/ SaveExists(p)
    \/ SaveRemove(p)
    \/ SaveLink(p)
    \/ SaveSync(p)
    \/ SaveRename(p)
    \/ SaveFail(p)
    \/ Crash(p)

Spec == Init /\ [][Next]_vars

\* A step of an update operation of process p, or its death
UpdateStep(p) ==
  \/ \E n \in Names : StartUpdate(p, n)
  \/ AcquireWriteLock(p)
  \/ UpdateLoad(p)
  \/ \E u \in OptVersion : UpdateQuery(p, u)
  \/ UpdatePending(p)
  \/ RunUpdateOk(p)
  \/ RunUpdateFail(p)
  \/ UpdateCommit(p)
  \/ SaveCreate(p)
  \/ SaveWrite(p)
  \/ SaveExists(p)
  \/ SaveRemove(p)
  \/ SaveLink(p)
  \/ SaveSync(p)
  \/ SaveRename(p)
  \/ SaveFail(p)
  \/ Crash(p)

\* Updates alone: every writer takes the lock
UpdateNext == \E p \in Procs : UpdateStep(p)

UpdateSpec == Init /\ [][UpdateNext]_vars

\* A step of update in process p that is the return of a call made by the
\* operation (file operations, query_update, run_update) and the code up
\* to the next call; not the wait for the lock, not a call's failure
Progress(p) ==
  \/ UpdateLoad(p)
  \/ \E u \in OptVersion : UpdateQuery(p, u)
  \/ UpdatePending(p)
  \/ RunUpdateOk(p)
  \/ UpdateCommit(p)
  \/ SaveCreate(p)
  \/ SaveWrite(p)
  \/ SaveExists(p)
  \/ SaveRemove(p)
  \/ SaveLink(p)
  \/ SaveSync(p)
  \/ SaveRename(p)

\* Every call returns, and lock_exclusive returns for a process that finds
\* the lock free again and again (fair scheduling of the waiters)
FairUpdateSpec ==
  /\ UpdateSpec
  /\ \A p \in Procs : WF_vars(Progress(p)) /\ SF_vars(AcquireWriteLock(p))

\* The daemon serving Update, Status and Validate requests on a root that
\* was installed before: updates, with status and validate in between.
DaemonNext ==
  \E p \in Procs :
    \/ UpdateStep(p)
    \/ \E queries_ok \in BOOLEAN : StatusLoad(p, queries_ok)
    \/ \E n \in Names, r \in ValidationResults : Validate(p, n, r)

DaemonSpec == Init /\ [][DaemonNext]_vars

----------------------------------------------------------------------------
(* The client: client_run_update (lines 279-323) and client_run_validate   *)
(* (lines 325-351).  What c.send returns is an input of the client: any    *)
(* reply of the daemon, or an error.                                       *)

\* ComponentUpdatable
Updatables == {"NoUpdateAvailable", "AtLatestVersion", "WouldDowngrade",
               "Upgradable"}

\* The Status replies: per component its `updatable`, or no entry
StatusReplies == [Components -> Updatables \cup {"absent"}]

\* status.components is a BTreeMap: iter() yields the names in order
NameOrder == << "BIOS", "EFI" >>

\* status.components.iter()
IterOf(st) == SelectSeq(NameOrder, LAMBDA n : st[n] # "absent")

\* ClientRequest::Status, ::Update { component }, ::Validate { component }
Request(kind, component) == [kind |-> kind, component |-> component]

\* The client process ends with result r
ClientReturn(r) ==
  /\ cpc' = "done"
  /\ exit' = r

\* The client is started (a new process: nothing is left of an earlier run)
ClientStart(o, env, at) ==
  /\ cpc \in {"idle", "done"}
  /\ cpc' = at
  /\ cop' = o
  /\ preview_env' = env
  /\ status' = [c \in Components |-> "absent"]
  /\ iter' = << >>
  /\ updated' = FALSE
  /\ caught_validation_error' = FALSE
  /\ sent' = << >>
  /\ replies' = [c \in Components |-> "none"]
  /\ warnings' = {}
  /\ exit' = "none"
  /\ UNCHANGED dvars

\* a check that lets every environment through
PreviewAlways(env) == TRUE

\* validate_preview_env: std::env::var_os(v).is_none() is an error
PreviewAccepted(env) == env

\* client_run_update is called in an environment
ClientRunUpdate(env) == ClientStart("update", env, "preview")

\* validate_preview_env()?
ClientPreview ==
  /\ cpc = "preview"
  /\ IF PreviewAccepted(preview_env)
     THEN cpc' = "status" /\ exit' = exit
     ELSE ClientReturn("ErrPreview")
  /\ UNCHANGED << dvars, cop, preview_env, status, iter, updated,
                  caught_validation_error, sent, replies, warnings >>

\* client_run_validate is called: no check of the environment
ClientRunValidate(env) == ClientStart("validate", env, "status")

\* let status: Status = c.send(&ClientRequest::Status)?;
\* if status.components.is_empty() { ..; return Ok(()) }
ClientStatus(ok, reply) ==
  /\ cpc = "status"
  /\ sent' = Append(sent, Request("Status", "none"))
  /\ IF ~ ok
     THEN ClientReturn("ErrRequest") /\ UNCHANGED << status, iter >>
     ELSE /\ status' = reply
          /\ iter' = IterOf(reply)
          /\ IF IterOf(reply) = << >>
             THEN ClientReturn("Ok")
             ELSE cpc' = "loop" /\ exit' = exit
  /\ UNCHANGED << dvars, cop, preview_env, updated, caught_validation_error,
                  replies, warnings >>

\* a loop that asks for the update of every component not at the latest
\* version
NotAtLatest(updatable) == updatable # "AtLatestVersion"

\* match cstatus.updatable { ComponentUpdatable::Upgradable => {} _ => continue }
IsUpgradable(updatable) == updatable = "Upgradable"

\* The reply to an Update request
UpdateReplies == {"AtLatestVersion", "Updated"}

\* One turn of the loop of client_run_update, or its end
ClientUpdateLoop(ok, reply) ==
  /\ cpc = "loop" /\ cop = "update"
  /\ IF iter = << >>
     THEN /\ ClientReturn("Ok")
          /\ UNCHANGED << iter, updated, sent, replies, warnings >>
     ELSE IF ~ IsUpgradable(status[Head(iter)])
     THEN /\ iter' = Tail(iter)
          /\ UNCHANGED << cpc, exit, updated, sent, replies, warnings >>
     ELSE /\ sent' = Append(sent, Request("Update", Head(iter)))
          /\ IF ~ ok
             THEN /\ ClientReturn("ErrRequest")
                  /\ UNCHANGED << iter, updated, replies, warnings >>
             ELSE /\ replies' = [replies EXCEPT ![Head(iter)] = reply]
                  /\ iter' = Tail(iter)
                  /\ warnings' = IF reply = "AtLatestVersion"
                                 THEN warnings \cup {Head(iter)} ELSE warnings
                  /\ updated' = IF reply = "AtLatestVersion"
                                THEN updated ELSE TRUE
                  /\ UNCHANGED << cpc, exit >>
  /\ UNCHANGED << dvars, cop, preview_env, status, caught_validation_error >>

\* The reply to a Validate request
ValidateReplies == {"Valid", "Errors"}

\* a run that takes its errors for printed and done with
ExitOkAlways(caught) == "Ok"

\* if caught_validation_error { bail!("Caught validation errors") }; Ok(())
ValidateExit(caught) == IF caught THEN "ErrValidation" ELSE "Ok"

\* One turn of the loop of client_run_validate, or its end
ClientValidateLoop(ok, reply) ==
  /\ cpc = "loop" /\ cop = "validate"
  /\ IF iter = << >>
     THEN /\ ClientReturn(ValidateExit(caught_validation_error))
          /\ UNCHANGED << iter, caught_validation_error, sent, replies >>
     ELSE /\ sent' = Append(sent, Request("Validate", Head(iter)))
          /\ IF ~ ok
             THEN /\ ClientReturn("ErrRequest")
                  /\ UNCHANGED << iter, caught_validation_error, replies >>
             ELSE /\ replies' = [replies EXCEPT ![Head(iter)] = reply]
                  /\ iter' = Tail(iter)
                  /\ caught_validation_error' =
                       (caught_validation_error \/ reply = "Errors")
                  /\ UNCHANGED << cpc, exit >>
  /\ UNCHANGED << dvars, cop, preview_env, status, updated, warnings >>

ClientNext ==
  \/ \E env \in BOOLEAN : ClientRunUpdate(env)
  \/ \E env \in BOOLEAN : ClientRunValidate(env)
  \/ ClientPreview
  \/ \E ok \in BOOLEAN, reply \in StatusReplies : ClientStatus(ok, reply)
  \/ \E ok \in BOOLEAN, reply \in UpdateReplies : ClientUpdateLoop(ok, reply)
  \/ \E ok \in BOOLEAN, reply \in ValidateReplies : ClientValidateLoop(ok, reply)

ClientSpec == Init /\ [][ClientNext]_vars

----------------------------------------------------------------------------
(* Properties *)

\* What get_saved_state finds under the canonical name
Canonical == [kind |-> ReadKind, data |-> ReadData]

\* installed[c] and pending[c] of the state on disk (0: no entry)
DiskInstalled(c) == ReadData.installed[c]
DiskPending(c) == UnwrapOrDefault(ReadData.pending)[c]

\* The step is process p's local_rename succeeding: update_state returns Ok
RenameStep(p) ==
  /\ pc[p] = "s_rename"
  /\ \/ pc'[p] = "u_run"
     \/ returned'.proc = p /\ returned'.result.kind \in {"Ok", "Updated"}

\* Process p is in update between acquire_write_lock returning and its return
InUpdate(p) == op[p] = "update" /\ pc[p] # "u_lock"

\* C1: a reader of bootupd-state.json never finds partial content; what
\* the canonical name holds changes only in a step that is the rename of
\* update_state, made by a process whose own new content is completely
\* written and synced, and the content found afterwards is the complete
\* content of the file the temporary name pointed at (the state that
\* process saved, when the file is its own); so a save that crashes or
\* fails before its rename leaves the previous state in place.
SaveIsAtomic ==
  /\ [](ReadKind # "malformed")
  /\ [][Canonical' # Canonical =>
          \E p \in Procs :
            /\ RenameStep(p)
            /\ files[f[p]].written = "full"
            /\ files[f[p]].synced
            /\ files[subdir[TMP_NAME]].written = "full"
            /\ Canonical' = [kind |-> "ok", data |-> files[subdir[TMP_NAME]].data]
            /\ (subdir[TMP_NAME] = f[p] => ReadData' = state[p])]_vars

\* A save was killed just before its rename: the temporary name holds the
\* new content, complete and synced, the canonical name the previous state.
SaveIsAtomicWitness ==
  /\ \A p \in Procs : pc[p] = "idle"
  /\ ReadKind = "ok"
  /\ subdir[TMP_NAME] # 0
  /\ files[subdir[TMP_NAME]].written = "full"
  /\ files[subdir[TMP_NAME]].synced
  /\ files[subdir[TMP_NAME]].data # ReadData

\* C2: while update(name) is between the persist that precedes run_update
\* and the return of run_update, the state on disk has pending[name] = the
\* candidate and installed[name] = the content as loaded, so that a status
\* of that moment (and of any moment after a kill there) reports the
\* component with the old installed version and interrupted = the candidate.
InterruptedUpdateIsPending ==
  \A p \in Procs :
    pc[p] = "u_run" =>
      /\ DiskPending(name[p]) = update[p]
      /\ DiskInstalled(name[p]) = inst[p]
      /\ StatusOf(ReadData)[name[p]] =
           [installed |-> inst[p], interrupted |-> update[p]]

\* C3: an update(name) that returns Updated while the failed run_update of
\* an earlier update(name) awaits its retry reports that earlier candidate
\* as interrupted.
RetryReportsInterrupted ==
  [][\A p \in Procs :
       (/\ RenameStep(p)
        /\ returned'.result.kind = "Updated"
        /\ failed.name = name[p])
       => returned'.result.interrupted = failed.update]_vars

\* C4: the step in which run_update fails returns an error for the named
\* component, and the state on disk then has pending[name] = the candidate
\* and installed[name] = the content as loaded.
FailedUpdateStaysPending ==
  [][\A p \in Procs :
       (pc[p] = "u_run" /\ returned'.proc = p)
       => /\ returned'.result.kind = "ErrRunUpdate"
          /\ returned'.name = name[p]
          /\ UnwrapOrDefault(ReadData'.pending)[name[p]] = update[p]
          /\ ReadData'.installed[name[p]] = inst[p]]_vars

\* C5: a process is in update past acquire_write_lock exactly while it
\* holds the lock: it holds it at the load, across both persists and
\* run_update, and no longer once update has returned, whatever it
\* returned; so no two processes are there at once, and while one is
\* between its load and its final persist no other update loads or saves.
SingleWriter ==
  /\ \A p \in Procs : InUpdate(p) <=> lock = p
  /\ \A p, q \in Procs : InUpdate(p) /\ InUpdate(q) => p = q
  /\ returned.op = "update" => lock # returned.proc

\* Two updates of different components: one in run_update, between its
\* two persists, the other waiting for the lock.
SingleWriterWitness ==
  \E p, q \in Procs :
    /\ pc[p] = "u_run" /\ pc[q] = "u_lock"
    /\ name[p] \in Components /\ name[q] \in Components
    /\ name[p] # name[q]

\* C6: a process that is checking for the state file in order to write
\* it, or is in update_state, holds the write lock, in install as in update.
EveryWriterHoldsLock ==
  \A p \in Procs : pc[p] \in SavePcs \cup {"i_install"} => lock = p

\* C7: update goes past the match on the candidate only with a candidate
\* that the installed content can upgrade to; otherwise it returns there,
\* with AtLatestVersion, in a step that leaves the file system alone; and
\* an update that returns AtLatestVersion has called neither update_state
\* nor run_update.
NoOpUpdate ==
  /\ [](returned.result.kind = "AtLatestVersion" =>
          /\ returned.op = "update"
          /\ returned.saves = 0
          /\ ~ returned.ran)
  /\ [](\A p \in Procs :
          (saves[p] > 0 \/ ran[p]) /\ op[p] = "update" =>
             update[p] # 0 /\ CanUpgradeTo(inst[p], update[p]))
  /\ [][\A p \in Procs :
          pc[p] = "u_query" =>
            /\ pc'[p] = "u_pending" =>
                 update'[p] # 0 /\ CanUpgradeTo(inst[p], update'[p])
            /\ returned'.proc = p =>
                 /\ returned'.result = Plain("AtLatestVersion")
                 /\ UNCHANGED fsvars]_vars

\* An update of an installed component returned AtLatestVersion.
NoOpUpdateWitness ==
  /\ returned.result.kind = "AtLatestVersion"
  /\ ReadKind = "ok"
  /\ DiskInstalled(returned.name) # 0

\* C8: a persist of update that puts its own file under the canonical name
\* while installed on disk is as the update loaded it leaves installed as
\* it is when it is the persist before run_update, and when it is the
\* final persist replaces installed[name], and no other entry, by a newer
\* version, the candidate being one the installed content can upgrade to.
UpgradeMonotonic ==
  [][\A p \in Procs :
       (/\ RenameStep(p)
        /\ op[p] = "update"
        /\ subdir[TMP_NAME] = f[p]
        /\ ReadData.installed = loaded[p].installed)
       => /\ \A c \in Components \ {name[p]} :
               DiskInstalled(c)' = DiskInstalled(c)
          /\ saves[p] = 1 =>
               ReadData'.installed[name[p]] = DiskInstalled(name[p])
          /\ saves[p] = 2 =>
               /\ ran[p]
               /\ update[p] # 0
               /\ CanUpgradeTo(DiskInstalled(name[p]), update[p])
               /\ ReadData'.installed[name[p]] > DiskInstalled(name[p])]_vars

\* An update has replaced the installed version 1 of a component by a
\* newer one, the other component staying at 1.
UpgradeMonotonicWitness ==
  /\ returned.result.kind = "Updated"
  /\ returned.result.previous = 1
  /\ DiskInstalled(returned.name) > 1
  /\ \E c \in Components : c # returned.name /\ DiskInstalled(c) = 1

\* C9: the final persist of update(name) returns Updated with previous =
\* installed[name] as loaded, interrupted = pending[name] as loaded and
\* new = the candidate; the state it saved, which is on disk when the
\* renamed file is its own, has installed[name] = what run_update
\* returned, no pending[name], and every other installed entry as loaded.
SuccessfulUpdate ==
  [][\A p \in Procs :
       (RenameStep(p) /\ op[p] = "update" /\ saves[p] = 2)
       => /\ returned'.proc = p
          /\ returned'.name = name[p]
          /\ returned'.result =
               Result("Updated", loaded[p].installed[name[p]],
                      UnwrapOrDefault(loaded[p].pending)[name[p]],
                      update[p], DefaultState)
          /\ ran[p]
          /\ state[p].installed[name[p]] = newinst[p]
          /\ UnwrapOrDefault(state[p].pending)[name[p]] = 0
          /\ \A c \in Components \ {name[p]} :
               state[p].installed[c] = loaded[p].installed[c]
          /\ (subdir[TMP_NAME] = f[p] => ReadData' = state[p])]_vars

\* An update that found pending[name] on disk has returned Updated, and
\* the state on disk has the new version installed and no pending[name].
SuccessfulUpdateWitness ==
  /\ returned.result.kind = "Updated"
  /\ returned.result.interrupted # 0
  /\ DiskInstalled(returned.name) = returned.result.new
  /\ DiskPending(returned.name) = 0

\* C10: a pending[c] that is on disk leaves the disk only in a step that is
\* the final persist of an update of c, after c's run_update returned Ok.
PendingRemovedOnlyOnSuccess ==
  [][\A c \in Components :
       (DiskPending(c) # 0 /\ DiskPending(c)' = 0)
       => \E p \in Procs :
            /\ RenameStep(p)
            /\ op[p] = "update"
            /\ name[p] = c
            /\ saves[p] = 2
            /\ ran[p]]_vars

\* C11: update(name), having loaded the state, goes on to query_update
\* only for a name that has a component and an entry in installed; for any
\* other name it returns an error at once, in a step that leaves the file
\* system alone, having called neither update_state nor run_update.
UnknownNameFails ==
  /\ [](returned.result.kind \in {"ErrNoComponent", "ErrNotInstalled"} =>
          returned.saves = 0 /\ ~ returned.ran)
  /\ [][\A p \in Procs :
          (/\ pc[p] = "u_load"
           /\ pc'[p] # "u_load"
           /\ returned'.proc = p \/ pc'[p] # "idle"
           /\ ~ KnownComponent(name[p]) \/ ReadData.installed[name[p]] = 0)
          => /\ returned'.proc = p
             /\ returned'.op = "update"
             /\ returned'.result =
                  IF ~ KnownComponent(name[p]) THEN Plain("ErrNoComponent")
                  ELSE Plain("ErrNotInstalled")
             /\ UNCHANGED fsvars]_vars

\* An update of a component without an entry in installed (there is no
\* state file, so the state loaded is the empty one) has returned its error.
UnknownNameFailsWitness ==
  /\ returned.op = "update"
  /\ returned.result.kind = "ErrNotInstalled"
  /\ returned.name \in Components
  /\ DiskInstalled(returned.name) = 0

\* The step is a call of install by process p (its check of the state file)
InstallCall(p) ==
  /\ pc[p] = "idle"
  /\ op'[p] = "install" \/ (returned'.proc = p /\ returned'.op = "install")

\* C12: an install that finds the state file returns the already-exists
\* error in that very step, without going on to the components' install
\* and without touching the file system; it has made no save.
InstallRefusesExisting ==
  /\ [](returned.result.kind = "ErrExists" =>
          returned.op = "install" /\ returned.saves = 0)
  /\ [][\A p \in Procs :
          InstallCall(p) /\ subdir[STATEFILE_NAME] # 0
          => /\ returned'.proc = p
             /\ returned'.result = Plain("ErrExists")
             /\ pc'[p] = "idle"
             /\ UNCHANGED fsvars]_vars

\* An install was refused and the state file is as it was.
InstallRefusesExistingWitness ==
  /\ returned.op = "install"
  /\ returned.result.kind = "ErrExists"
  /\ ReadKind = "ok"

ReadOnlyCall(p) ==
  /\ pc[p] = "idle"
  /\ returned'.proc = p
  /\ returned'.op \in {"status", "validate"}

\* C14: a call of status or validate, whatever it returns, leaves the
\* file system and the lock as they are and calls neither update_state
\* nor run_update; status returns the empty Status when there is no state
\* file, and a Status it returns otherwise has, for every name, the
\* installed entry of the state on disk at its load (no entry where
\* installed has none) with interrupted = the pending entry of that name
\* in the same state.
ReadOnlyOperations ==
  /\ [](returned.op \in {"status", "validate"} =>
          returned.saves = 0 /\ ~ returned.ran)
  /\ [][\A p \in Procs :
          ReadOnlyCall(p) =>
            /\ UNCHANGED << fsvars, lock >>
            /\ pc'[p] = "idle"
            /\ (returned'.op = "status" /\ ReadKind = "absent") =>
                 returned'.result = Result("Status", 0, 0, 0, DefaultState)
            /\ (returned'.op = "status"
                  /\ returned'.result.kind = "Status") =>
                 \A c \in Components :
                   /\ returned'.result.components[c].installed =
                        DiskInstalled(c)
                   /\ returned'.result.components[c].interrupted =
                        IF DiskInstalled(c) = 0 THEN 0 ELSE DiskPending(c)]_vars

\* A status has reported an interrupted update of an installed component
\* while an update was holding the write lock.
ReadOnlyOperationsWitness ==
  /\ returned.op = "status"
  /\ \E c \in Components :
       /\ returned.result.components[c].installed # 0
       /\ returned.result.components[c].interrupted # 0
  /\ lock # NoProc /\ lock # returned.proc

\* The requests of a run that got through: Status, then one request of
\* the kind for each of the names, in order
Requests(kind, names) ==
  << Request("Status", "none") >> \o
    [i \in 1 .. Len(names) |-> Request(kind, names[i])]

\* C15: a client_run_update in an environment without the preview
\* variable has sent nothing, and has gone no further than the check of
\* the environment, from which it returns the error.
PreviewGate ==
  /\ (cop = "update" /\ ~ preview_env) =>
       /\ sent = << >>
       /\ cpc \in {"preview", "done"}
       /\ cpc = "done" => exit = "ErrPreview"
  /\ exit = "ErrPreview" => cop = "update" /\ ~ preview_env /\ sent = << >>

\* client_run_update has failed on the missing variable.
PreviewGateWitness ==
  /\ cop = "update" /\ cpc = "done"
  /\ ~ preview_env
  /\ exit = "ErrPreview"

\* C16: a client_run_validate all of whose requests succeeded has sent,
\* after Status, one Validate for each component of the Status reply and
\* got a reply for each, and it fails exactly when one of those replies
\* was Errors; a reply of Errors does not end the loop.
ValidateAggregates ==
  /\ []((cop = "validate" /\ cpc = "done" /\ exit # "ErrRequest") =>
          /\ sent = Requests("Validate", IterOf(status))
          /\ \A c \in Components :
               status[c] # "absent" => replies[c] \in ValidateReplies
          /\ exit \in {"Ok", "ErrValidation"}
          /\ exit = "ErrValidation" <=>
               \E c \in Components : replies[c] = "Errors")
  /\ [][(cop = "validate" /\ cpc = "loop" /\ iter # << >>
           /\ replies'[Head(iter)] = "Errors")
        => /\ cpc' = "loop"
           /\ iter' = Tail(iter)
           /\ exit' = "none"]_vars

\* A run in which the first component's reply was Errors and the second
\* one's Valid has failed.
ValidateAggregatesWitness ==
  /\ cop = "validate" /\ cpc = "done"
  /\ replies["BIOS"] = "Errors"
  /\ replies["EFI"] = "Valid"
  /\ exit = "ErrValidation"

\* C17: client_run_update sends Update only for components that the Status
\* reply classifies Upgradable, and no request twice; the components with
\* a warning are those whose reply was AtLatestVersion, `updated` is set
\* exactly when a reply was Updated, such a reply does not end the loop,
\* and a run all of whose requests succeeded has asked for every
\* Upgradable component and returns Ok.
UpdateOnlyUpgradable ==
  /\ [](cop = "update" =>
          /\ \A i \in 1 .. Len(sent) :
               /\ sent[i].kind \in {"Status", "Update"}
               /\ sent[i].kind = "Update" =>
                    status[sent[i].component] = "Upgradable"
               /\ \A j \in 1 .. Len(sent) : sent[j] = sent[i] => j = i
          /\ warnings = {c \in Components : replies[c] = "AtLatestVersion"}
          /\ updated <=> \E c \in Components : replies[c] = "Updated"
          /\ (cpc = "done" /\ exit \notin {"ErrRequest", "ErrPreview"}) =>
               /\ exit = "Ok"
               /\ \A c \in Components :
                    status[c] = "Upgradable" <=> replies[c] # "none")
  /\ [][(cop = "update" /\ cpc = "loop" /\ warnings' # warnings)
        => /\ cpc' = "loop"
           /\ iter' = Tail(iter)
           /\ updated' = updated
           /\ exit' = "none"]_vars

\* A run warned about the first component, updated the second and
\* returned Ok.
UpdateOnlyUpgradableWitness ==
  /\ cop = "update" /\ cpc = "done"
  /\ warnings = {"BIOS"}
  /\ replies["EFI"] = "Updated"
  /\ updated
  /\ exit = "Ok"

\* C18: with every call returning and the lock granted fairly, an update
\* that waits for the lock gets it (unless it is killed while waiting), and
\* every update that was called ends; an update past the lock can always
\* take its next step, so the lock is the only place where it waits.
UpdateTerminates ==
  /\ \A p \in Procs :
       /\ (pc[p] = "u_lock") ~> (lock = p \/ pc[p] = "idle")
       /\ (pc[p] # "idle") ~> (pc[p] = "idle")
  /\ [](\A p \in Procs :
          pc[p] \notin {"idle", "u_lock"} => ENABLED Progress(p))

\* An update waits for the lock, which another update has just let go by
\* returning the error of run_update.
UpdateTerminatesWitness ==
  \E p \in Procs :
    /\ pc[p] = "u_lock"
    /\ lock = NoProc
    /\ returned.proc # p
    /\ returned.op = "update" /\ returned.result.kind = "ErrRunUpdate"

\* C19: when the saves run one at a time (each under the lock of its
\* update) after saves that were killed at any step, a save that finds a
\* temporary name removes it, a save links its file only where no
\* temporary name is, the name it then syncs and renames is that of its
\* own file, and the rename leaves the state it saved under the canonical
\* name and no temporary name: no step of the save fails on the leftover.
StaleTmpRecovery ==
  /\ [](\A p \in Procs :
          /\ pc[p] = "s_remove" => subdir[TMP_NAME] \notin {0, f[p]}
          /\ pc[p] = "s_link" => subdir[TMP_NAME] = 0
          /\ pc[p] \in {"s_sync", "s_rename"} => subdir[TMP_NAME] = f[p])
  /\ [][\A p \in Procs :
          /\ (pc[p] = "s_exists" /\ subdir[TMP_NAME] # 0
                /\ pc'[p] \in SavePcs \ {"s_exists"}) => pc'[p] = "s_remove"
          /\ (pc[p] = "s_remove" /\ pc'[p] \in SavePcs \ {"s_remove"}) =>
               pc'[p] = "s_link" /\ subdir'[TMP_NAME] = 0
          /\ RenameStep(p) =>
               /\ ReadKind' = "ok"
               /\ ReadData' = state[p]
               /\ subdir'[TMP_NAME] = 0]_vars

\* A save is about to remove the temporary name that a killed save left,
\* complete and with another content than its own.
StaleTmpRecoveryWitness ==
  \E p \in Procs :
    /\ pc[p] = "s_remove"
    /\ \A q \in Procs \ {p} : pc[q] \notin SavePcs
    /\ subdir[TMP_NAME] # 0
    /\ files[subdir[TMP_NAME]].written = "full"
    /\ files[subdir[TMP_NAME]].data # state[p]

\* C20: of the installs running against a root, at most one is past its
\* check of the state file (about to install the components, or saving).
AtMostOneInstall ==
  \A p, q \in Procs : op[p] = "install" /\ op[q] = "install" => p = q

====
